---- MODULE Spec2Model ----
(***************************************************************************)
(* A model of build.py: the script runs the external build driver with     *)
(* os.system, exits with status 1 when the driver reports failure, and     *)
(* otherwise opens build.zip for writing and stores the five release       *)
(* artifacts in it, one zip.write call per artifact.                       *)
(*                                                                         *)
(* Modelled environment: the files under ./target (written only by the     *)
(* build driver) and the file build.zip.  A path is either Missing or      *)
(* holds a regular file: a byte sequence and the year of its modification *)
(* time.  The output path is taken to be writable and a file that exists   *)
(* is taken to be a readable regular file.  The failures of zip.write that *)
(* are modelled are os.stat of an artifact that does not exist and a       *)
(* modification time the ZIP format cannot hold (a year before 1980 or     *)
(* after 2107).                                                            *)
(***************************************************************************)
EXTENDS Integers, Sequences, FiniteSets, TLC

VARIABLES
    pc,         \* stage of the running process
    run,        \* number of the process (1 = first invocation of the script)
    status,     \* value returned by os.system, NoStatus before it returns
    fs,         \* files under ./target: path -> Missing or content
    buildzip,   \* the file build.zip on disk: Absent or [entries, finalized]
    zip,        \* the ZipFile object of line 8: NoZip or [filelist, closed]
    k,          \* index in Manifest of the next zip.write call (lines 9-13)
    exitCode,   \* exit status of the process, NoExit while it runs
    stdout,     \* lines printed by the process
    reads,      \* history: artifact paths the process has opened for reading
    buildCalls, \* history: os.system calls made by the process
    trace,      \* history: stages the process has been in, in order
    collisions, \* history: zip.write calls whose arcname was already listed
    zipAtStart, \* history: build.zip as the process found it
    firstRun    \* history: <<inputs and result of process 1>>, <<>> before it ends

vars == <<pc, run, status, fs, buildzip, zip, k, exitCode, stdout, reads,
          buildCalls, trace, collisions, zipAtStart, firstRun>>

----------------------------------------------------------------------------
(* Bounds of the model. *)

MaxLen == 1
MaxStatus == 1
MaxRuns == 2

----------------------------------------------------------------------------
(* Values. *)

\* The years a ZIP header can hold: ZipInfo refuses a year before 1980, and
\* the 7-bit year field of the DOS date ends at 1980 + 127.
MinZipYear == 1980

MaxZipYear == 2107

\* The years of the modification times the build driver may leave on a
\* file: the first year that fits a ZIP header, and the last year too
\* early and the first too late.
FittingYears == {MinZipYear}

UnfitYears == {MinZipYear - 1, MaxZipYear + 1}

\* A path with no file at it, and a file holding the bytes c, last modified
\* in year y.
Missing == [exists |-> FALSE, data |-> <<>>, year |-> MinZipYear]

File(c, y) == [exists |-> TRUE, data |-> c, year |-> y]

\* No file at build.zip.
Absent == [exists |-> FALSE, entries |-> <<>>, finalized |-> FALSE]

\* Line 8 not reached: no ZipFile object.
NoZip == [constructed |-> FALSE, filelist |-> <<>>, closed |-> FALSE]

\* status and exitCode hold <<>> until they are set, then <<value>>.
NoStatus == <<>>

NoExit == <<>>

\* The byte values a file may hold; contents differ by their length.
ByteValues == {120}

Contents == UNION {[1..n -> ByteValues] : n \in 0..MaxLen}

\* The states of an artifact path.  zip.write never reads the bytes of a
\* file whose time does not fit, so one content stands for all of them.
FileStates ==
    {Missing}
    \cup {File(c, y) : c \in Contents, y \in FittingYears}
    \cup {File(<<x>>, y) : x \in ByteValues, y \in UnfitYears}

\* os.system returns an integer; 0 is success.
Statuses == 0..MaxStatus

\* Mutant of Manifest: the second call pasted from the first with only its
\* filename changed.
ManifestPasted ==
    << [filename |-> "./target/x86_64-pc-windows-gnu/release/sasa.dll",
        arcname  |-> "x86_64-pc-windows-gnu/sasa.dll"],
       [filename |-> "./target/i686-pc-windows-gnu/release/sasa.dll",
        arcname  |-> "x86_64-pc-windows-gnu/sasa.dll"],
       [filename |-> "./target/aarch64-linux-android/release/libsasa.so",
        arcname  |-> "aarch64-linux-android/libsasa.so"],
       [filename |-> "./target/armv7-linux-androideabi/release/libsasa.so",
        arcname  |-> "armv7-linux-androideabi/libsasa.so"],
       [filename |-> "./target/aarch64-apple-ios/release/libsasa.a",
        arcname  |-> "aarch64-apple-ios/libsasa.a"] >>

\* Lines 9-13: the five zip.write calls, in program order.
Manifest ==
    << [filename |-> "./target/x86_64-pc-windows-gnu/release/sasa.dll",
        arcname  |-> "x86_64-pc-windows-gnu/sasa.dll"],
       [filename |-> "./target/i686-pc-windows-gnu/release/sasa.dll",
        arcname  |-> "i686-pc-windows-gnu/sasa.dll"],
       [filename |-> "./target/aarch64-linux-android/release/libsasa.so",
        arcname  |-> "aarch64-linux-android/libsasa.so"],
       [filename |-> "./target/armv7-linux-androideabi/release/libsasa.so",
        arcname  |-> "armv7-linux-androideabi/libsasa.so"],
       [filename |-> "./target/aarch64-apple-ios/release/libsasa.a",
        arcname  |-> "aarch64-apple-ios/libsasa.a"] >>

ArtifactPaths == {Manifest[i].filename : i \in 1..Len(Manifest)}

TerminalStages == {"BUILD_FAILED", "PACKAGE_FAILED", "DONE"}

----------------------------------------------------------------------------
(* The statements of the script as operators. *)

\* Line 5: the text handed to print, as Unicode code points.
BuildFailedMessage == <<32534, 35793, 22833, 36133>>

\* Mutants of AfterBuild: the exit of line 6 left out (the script falls
\* through to line 8), and the failure answered by running the driver again.
AfterBuildNoExit(st) == "PACKAGING"

AfterBuildInverted(st) == IF st = 0 THEN "BUILD_FAILED" ELSE "PACKAGING"

AfterBuildRetry(st) == IF st # 0 THEN "START" ELSE "PACKAGING"

\* Lines 4-6: a status other than 0 ends the process, 0 goes on to line 8.
AfterBuild(st) == IF st # 0 THEN "BUILD_FAILED" ELSE "PACKAGING"

\* Exit status of the process by the stage it ends in: exit(1) on line 6,
\* 1 from the interpreter for the exception that leaves lines 8-13, 0 when
\* the script runs to its end.
ExitCodeOf(stage) ==
    CASE stage = "BUILD_FAILED"   -> 1
      [] stage = "PACKAGE_FAILED" -> 1
      [] stage = "DONE"           -> 0

\* Mutant of ZipOpen: mode "a", which keeps the records of an archive that
\* is already there.
ZipOpenAppend(disk) ==
    [exists |-> TRUE, entries |-> disk.entries, finalized |-> FALSE]

\* Line 8: ZipFile("build.zip", "w") opens the path "w+b": the file is
\* created, or cut to length 0, and holds no record and no directory.
ZipOpen(disk) == [exists |-> TRUE, entries |-> <<>>, finalized |-> FALSE]

\* The names of the records of a file, in file order.
EntryNames(disk) == [i \in 1..Len(disk.entries) |-> disk.entries[i].name]

\* ZipInfo.from_file calls os.stat on the path: it raises when there is no
\* such file.
StatFails(fsys, filename) == ~fsys[filename].exists

\* ZipInfo.from_file builds ZipInfo(arcname, date_time) from st_mtime:
\* ZipInfo raises ValueError for a year before 1980.
TimestampTooEarly(fsys, filename) == fsys[filename].year < MinZipYear

\* ZipFile.open(zinfo, 'w') packs the header of the entry: struct raises
\* for a year whose DOS date does not fit 16 bits.  The source file has
\* been opened by then; nothing has been written.
TimestampTooLate(fsys, filename) == fsys[filename].year > MaxZipYear

\* Lines 9-13, one call: whether zip.write(filename, ...) raises.
WriteRaises(fsys, filename) ==
    \/ StatFails(fsys, filename)
    \/ TimestampTooEarly(fsys, filename)
    \/ TimestampTooLate(fsys, filename)

\* shutil.copyfileobj: the bytes of the source, in order, to its end.
RECURSIVE CopyFileObj(_)
CopyFileObj(src) ==
    IF src = <<>> THEN <<>>
    ELSE <<Head(src)>> \o CopyFileObj(Tail(src))

\* Lines 9-13, one call: zip.write(filename, arcname=...) appends a stored
\* record named arcname that holds the bytes of filename.
ZipWrite(disk, item, fsys) ==
    [disk EXCEPT !.entries =
        Append(@, [name |-> item.arcname,
                   data |-> CopyFileObj(fsys[item.filename].data)])]

\* Leaving the with block of line 8, normally or by an exception, calls
\* ZipFile.close, which writes the directory of the records written so far.
ZipClose(disk) == [disk EXCEPT !.finalized = TRUE]

----------------------------------------------------------------------------
(* The state before the script is started. *)

\* The archive a successful run leaves when every artifact holds c.
ArchiveOf(c) ==
    [exists    |-> TRUE,
     entries   |-> [i \in 1..Len(Manifest) |->
                       [name |-> Manifest[i].arcname, data |-> c]],
     finalized |-> TRUE]

\* A fresh checkout (no artifact, no archive), or the tree as an earlier
\* successful run left it: every artifact built, and its archive in place.
Init ==
    /\ pc = "START"
    /\ run = 1
    /\ status = NoStatus
    /\ \/ /\ fs = [p \in ArtifactPaths |-> Missing]
          /\ buildzip = Absent
       \/ \E c \in Contents :
             /\ fs = [p \in ArtifactPaths |-> File(c, MinZipYear)]
             /\ buildzip = ArchiveOf(c)
    /\ zip = NoZip
    /\ k = 1
    /\ exitCode = NoExit
    /\ stdout = <<>>
    /\ reads = {}
    /\ buildCalls = 0
    /\ trace = <<"START">>
    /\ collisions = 0
    /\ zipAtStart = buildzip
    /\ firstRun = <<>>

----------------------------------------------------------------------------
(* The steps of the script. *)

\* Line 4: os.system starts the build driver and waits for it.
StartBuild ==
    /\ pc = "START"
    /\ pc' = "BUILDING"
    /\ buildCalls' = buildCalls + 1
    /\ trace' = Append(trace, "BUILDING")
    /\ UNCHANGED <<run, status, fs, buildzip, zip, k, exitCode, stdout,
                   reads, collisions, zipAtStart, firstRun>>

\* What lines 4-6 do once the driver has returned st and left the tree f.
Returned(st, f) ==
    /\ status' = <<st>>
    /\ fs' = f
    /\ pc' = AfterBuild(st)
    /\ trace' = Append(trace, pc')
    /\ stdout' = IF st # 0 THEN Append(stdout, BuildFailedMessage) ELSE stdout
    /\ exitCode' = IF pc' \in TerminalStages THEN <<ExitCodeOf(pc')>> ELSE exitCode
    /\ UNCHANGED <<run, buildzip, zip, k, reads, buildCalls, collisions,
                   zipAtStart, firstRun>>

\* Lines 4-6: the driver returns.  It may have written or removed any
\* artifact, whatever status it reports.
BuildReturns ==
    /\ pc = "BUILDING"
    /\ run = 1
    /\ \E st \in Statuses, f \in [ArtifactPaths -> FileStates] : Returned(st, f)

\* Line 8: the ZipFile is constructed.
OpenZip ==
    /\ pc = "PACKAGING"
    /\ zip = NoZip
    /\ buildzip' = ZipOpen(buildzip)
    /\ zip' = [constructed |-> TRUE, filelist |-> EntryNames(buildzip'),
               closed |-> FALSE]
    /\ UNCHANGED <<pc, run, status, fs, k, exitCode, stdout, reads,
                   buildCalls, trace, collisions, zipAtStart, firstRun>>

\* Lines 9-13: the k-th zip.write.  When it raises, the exception leaves
\* the with block (which closes the archive) and ends the process.
WriteEntry ==
    /\ pc = "PACKAGING"
    /\ zip.constructed
    /\ k <= Len(Manifest)
    /\ IF WriteRaises(fs, Manifest[k].filename)
       THEN /\ buildzip' = ZipClose(buildzip)
            /\ zip' = [zip EXCEPT !.closed = TRUE]
            /\ pc' = "PACKAGE_FAILED"
            /\ trace' = Append(trace, pc')
            /\ exitCode' = <<ExitCodeOf(pc')>>
            /\ reads' = IF ~StatFails(fs, Manifest[k].filename)
                            /\ ~TimestampTooEarly(fs, Manifest[k].filename)
                         THEN reads \cup {Manifest[k].filename}
                         ELSE reads
            /\ UNCHANGED <<k, collisions>>
       ELSE /\ buildzip' = ZipWrite(buildzip, Manifest[k], fs)
            /\ zip' = [zip EXCEPT !.filelist = EntryNames(buildzip')]
            /\ reads' = reads \cup {Manifest[k].filename}
            /\ collisions' =
                  IF \E i \in 1..Len(zip.filelist) :
                        zip.filelist[i] = buildzip'.entries[Len(buildzip'.entries)].name
                  THEN collisions + 1 ELSE collisions
            /\ k' = k + 1
            /\ UNCHANGED <<pc, trace, exitCode>>
    /\ UNCHANGED <<run, status, fs, stdout, buildCalls, zipAtStart, firstRun>>

\* The end of the with block and of the script.
CloseZip ==
    /\ pc = "PACKAGING"
    /\ zip.constructed
    /\ k > Len(Manifest)
    /\ buildzip' = ZipClose(buildzip)
    /\ zip' = [zip EXCEPT !.closed = TRUE]
    /\ pc' = "DONE"
    /\ trace' = Append(trace, pc')
    /\ exitCode' = <<ExitCodeOf(pc')>>
    /\ UNCHANGED <<run, status, fs, k, stdout, reads, buildCalls, collisions,
                   zipAtStart, firstRun>>

Next == StartBuild \/ BuildReturns \/ OpenZip \/ WriteEntry \/ CloseZip

\* One invocation of the script.
Spec == Init /\ [][Next]_vars

\* The interpreter keeps running the script until it exits.
FairSpec == Spec /\ WF_vars(Next)

----------------------------------------------------------------------------
(* The script started again once a process has ended, on the same inputs:  *)
(* the driver reports the status and leaves the tree it did the first      *)
(* time.                                                                   *)

Retrigger ==
    /\ pc \in TerminalStages
    /\ run < MaxRuns
    /\ run' = run + 1
    /\ firstRun' = IF run = 1
                   THEN << [status |-> status[1], fs |-> fs,
                            buildzip |-> buildzip, stage |-> pc] >>
                   ELSE firstRun
    /\ pc' = "START"
    /\ status' = NoStatus
    /\ zip' = NoZip
    /\ k' = 1
    /\ exitCode' = NoExit
    /\ stdout' = <<>>
    /\ reads' = {}
    /\ buildCalls' = 0
    /\ trace' = <<"START">>
    /\ collisions' = 0
    /\ zipAtStart' = buildzip
    /\ UNCHANGED <<fs, buildzip>>

BuildReturnsAgain ==
    /\ pc = "BUILDING"
    /\ run > 1
    /\ Returned(firstRun[1].status, firstRun[1].fs)

NextRerun == Next \/ Retrigger \/ BuildReturnsAgain

SpecRerun == Init /\ [][NextRerun]_vars

----------------------------------------------------------------------------
(* The properties. *)

\* The declared targets: triple and name of the artifact.
DeclaredTargets ==
    << [triple |-> "x86_64-pc-windows-gnu",   archive_name |-> "sasa.dll"],
       [triple |-> "i686-pc-windows-gnu",     archive_name |-> "sasa.dll"],
       [triple |-> "aarch64-linux-android",   archive_name |-> "libsasa.so"],
       [triple |-> "armv7-linux-androideabi", archive_name |-> "libsasa.so"],
       [triple |-> "aarch64-apple-ios",       archive_name |-> "libsasa.a"] >>

\* <triple>/<archive_name>
ArchivePath(t) == t.triple \o "/" \o t.archive_name

\* ./target/<triple>/release/<archive_name>
SourcePath(t) == "./target/" \o t.triple \o "/release/" \o t.archive_name

DeclaredOrder == [i \in 1..Len(DeclaredTargets) |-> ArchivePath(DeclaredTargets[i])]

NoDuplicates(seq) == \A i, j \in 1..Len(seq) : seq[i] = seq[j] => i = j

Visited(stage) == \E i \in 1..Len(trace) : trace[i] = stage

BuildFailed == status # NoStatus /\ status[1] # 0

BuildSucceeded == status = <<0>>

\* The archive holds a directory and exactly the declared entries.
CompleteArchive(disk) ==
    /\ disk.exists
    /\ disk.finalized
    /\ Len(disk.entries) = Len(DeclaredTargets)
    /\ \A i \in 1..Len(DeclaredTargets) :
          \E j \in 1..Len(disk.entries) :
             disk.entries[j].name = ArchivePath(DeclaredTargets[i])

\* C1: when os.system returns a status other than 0, the process reads no
\* artifact, never enters the packaging stage, constructs no ZipFile and
\* leaves build.zip as it found it.
C1_FailedBuildNeverPackages ==
    BuildFailed =>
        /\ reads = {}
        /\ ~Visited("PACKAGING")
        /\ ~zip.constructed
        /\ buildzip = zipAtStart

\* C1 witness: the build has failed, the process has ended, and every
\* artifact is in place to be read.
C1_Witness ==
    /\ pc = "BUILD_FAILED"
    /\ BuildFailed
    /\ \A p \in ArtifactPaths : fs[p].exists /\ fs[p].data # <<>>

\* C2 (as claimed): when the build succeeds and some declared artifact is
\* missing or empty, the run ends with no file at build.zip.
C2_NoArchiveWhenArtifactMissingOrEmpty ==
    ( /\ pc \in TerminalStages
      /\ BuildSucceeded
      /\ \E p \in ArtifactPaths : ~fs[p].exists \/ fs[p].data = <<>> )
    => ~buildzip.exists

\* C3 (as claimed): a run never leaves build.zip holding a strict subset of
\* the entries: when the run has ended the file is as the run found it or
\* is the complete archive.
C3_NoPartialArchiveLeft ==
    pc \in TerminalStages =>
        \/ buildzip = zipAtStart
        \/ CompleteArchive(buildzip)

\* C4 (as claimed): when the build succeeds and every declared artifact
\* exists, the run ends in DONE with build.zip a finished archive of exactly one entry per
\* declared target, named <triple>/<archive_name> and holding the bytes of
\* ./target/<triple>/release/<archive_name>.
C4_ArchiveMirrorsArtifacts ==
    ( /\ pc \in TerminalStages
      /\ BuildSucceeded
      /\ \A p \in ArtifactPaths : fs[p].exists )
    => /\ pc = "DONE"
       /\ buildzip.exists
       /\ buildzip.finalized
       /\ Len(buildzip.entries) = Len(DeclaredTargets)
       /\ \A i \in 1..Len(DeclaredTargets) :
             /\ SourcePath(DeclaredTargets[i]) \in ArtifactPaths
             /\ Cardinality({j \in 1..Len(buildzip.entries) :
                   buildzip.entries[j].name = ArchivePath(DeclaredTargets[i])}) = 1
             /\ \A j \in 1..Len(buildzip.entries) :
                   buildzip.entries[j].name = ArchivePath(DeclaredTargets[i])
                   => buildzip.entries[j].data =
                         fs[SourcePath(DeclaredTargets[i])].data

\* C5: the entries of a finished archive are in the order of the declared
\* targets, and the script run again on the same inputs (the same status,
\* the same artifact files) ends in the same stage with the same sequence
\* of entry names at build.zip.
C5_EntryOrderDeterministic ==
    /\ pc = "DONE" => EntryNames(buildzip) = DeclaredOrder
    /\ (run > 1 /\ pc \in TerminalStages) =>
          /\ pc = firstRun[1].stage
          /\ EntryNames(buildzip) = EntryNames(firstRun[1].buildzip)

\* C5 witness: the second process has finished an archive, as the first
\* had.
C5_Witness ==
    /\ run > 1
    /\ pc = "DONE"
    /\ firstRun[1].stage = "DONE"
    /\ Len(buildzip.entries) = Len(DeclaredTargets)

\* The transitions of the pipeline as claimed.
ClaimedTransitions ==
    { <<"START", "BUILDING">>,
      <<"BUILDING", "BUILD_FAILED">>, <<"BUILDING", "VALIDATING">>,
      <<"VALIDATING", "VALIDATION_FAILED">>, <<"VALIDATING", "PACKAGING">>,
      <<"PACKAGING", "PACKAGE_FAILED">>, <<"PACKAGING", "DONE">> }

\* C6 (as claimed): every change of stage is one of the claimed
\* transitions, so that PACKAGING is entered from VALIDATING only, and
\* build.zip is written only after a VALIDATING stage.
C6_StagesAsClaimed ==
    [][ /\ pc' # pc => <<pc, pc'>> \in ClaimedTransitions
        /\ buildzip' # buildzip => Visited("VALIDATING") ]_vars

\* An upper bound on the steps a run has left: the two steps of the
\* build, the opening of the archive, one step per zip.write not yet made,
\* and the closing of the archive.
StepsLeft ==
    CASE pc = "START"     -> Len(Manifest) + 4
      [] pc = "BUILDING"  -> Len(Manifest) + 3
      [] pc = "PACKAGING" -> IF zip.constructed
                             THEN Len(Manifest) + 2 - k
                             ELSE Len(Manifest) + 2
      [] OTHER            -> 0

\* C7: every run reaches a terminal stage: a run that is not in a terminal
\* stage can take a step, and every step leaves it fewer steps to take.  A
\* run takes no step from a terminal stage; the build driver is called at
\* most once, and exactly once in a run that has ended; no stage is
\* entered twice.
C7_RunEndsOnceWithoutRetry ==
    /\ [](pc \in TerminalStages \/ ENABLED Next)
    /\ [][ /\ pc \notin TerminalStages
           /\ StepsLeft' < StepsLeft
           /\ StepsLeft' >= 0
           /\ buildCalls' <= 1
           /\ pc' \in TerminalStages => buildCalls' = 1
           /\ NoDuplicates(trace') ]_vars

\* C7 witness: a run ended by a failure in packaging, after one call of
\* the build driver.
C7_Witness ==
    /\ pc = "PACKAGE_FAILED"
    /\ buildCalls = 1
    /\ trace = <<"START", "BUILDING", "PACKAGING", "PACKAGE_FAILED">>

\* C8 (as claimed): a run that has ended has an exit code, 0 exactly when
\* it ended in DONE, and a failure in packaging exits with another code
\* than a failure of the build.
C8_StageSpecificExitCodes ==
    /\ pc \in TerminalStages =>
          /\ exitCode # NoExit
          /\ exitCode = <<0>> <=> pc = "DONE"
    /\ pc = "PACKAGE_FAILED" => exitCode # <<ExitCodeOf("BUILD_FAILED")>>

\* C9: the triples of the declared targets are pairwise distinct, every
\* zip.write names its entry <triple>/<archive_name>, the names listed in
\* the ZipFile and the names written to build.zip are pairwise distinct in
\* every state, and no zip.write names an entry that is already listed.
C9_EntryNamesNeverCollide ==
    /\ NoDuplicates([i \in 1..Len(DeclaredTargets) |-> DeclaredTargets[i].triple])
    /\ Len(Manifest) = Len(DeclaredTargets)
    /\ \A i \in 1..Len(Manifest) :
          Manifest[i].arcname = ArchivePath(DeclaredTargets[i])
    /\ NoDuplicates(zip.filelist)
    /\ NoDuplicates(EntryNames(buildzip))
    /\ collisions = 0

\* C9 witness: packaging has written every entry and not yet closed the
\* archive.
C9_Witness ==
    /\ pc = "PACKAGING"
    /\ Len(zip.filelist) = Len(Manifest)
    /\ ~zip.closed

\* C10: build.zip changes only in a step taken in the packaging stage
\* after os.system has returned 0, and once the build has failed build.zip
\* is as the process found it.
C10_FailedBuildLeavesArchive ==
    [][ /\ buildzip' # buildzip => (BuildSucceeded /\ pc = "PACKAGING")
        /\ (status' # NoStatus /\ status'[1] # 0) => buildzip' = zipAtStart' ]_vars

\* C10 witness: the build has failed and the finished archive of an
\* earlier run is still at build.zip.
C10_Witness ==
    /\ pc = "BUILD_FAILED"
    /\ BuildFailed
    /\ zipAtStart.exists
    /\ buildzip = zipAtStart
    /\ CompleteArchive(buildzip)

====
